---- MODULE Spec2Model ----
(***************************************************************************)
(* Model of the fraud-detection dashboard (FraudDetectionDashboard): the   *)
(* WebSocket connection effect with its retry logic, the message handler   *)
(* that folds inbound messages into the two logs and the statistics, and   *)
(* the classification rule.                                                *)
(*                                                                         *)
(* An optional JSON field is modelled as a key that is or is not in the    *)
(* DOMAIN of a function, so that `x.f === 1` reads                         *)
(* "f" \in DOMAIN x /\ x.f = 1.                                            *)
(***************************************************************************)
EXTENDS Integers, Sequences, FiniteSets, TLC

\* ------------------------------------------------------------------ bounds
\* Sockets the connector may create in one run (the initial one included).
MaxSockets == 7
\* Messages that append to the predictions log in one run.
MaxLog == 2

\* Predictions handed to the table and alert-panel predicates in one call.
MaxDisplayLog == 2
\* Amounts handed to identifyAnomalies in one call.
MaxAmounts == 7

\* --------------------------------------------------------------- constants
maxReconnectAttempts == 5

VARIABLES
    connectionStatus,   \* useState 'connecting' | 'connected' | 'disconnected'
    reconnectAttempts,  \* the effect's closure variable
    sockets,            \* readyState of every WebSocket created, in creation order
    timers,             \* pending setTimeout callbacks: their delays in ms
    mounted,            \* FALSE once the effect's cleanup has run
    drops,              \* history: close events since the last open event
    predictions,        \* useState Prediction[]
    transactions,       \* useState Transaction[]
    stats,              \* useState {total, flagged, recentVolume}
    call,               \* the render-time function being evaluated, with its arguments
    ret                 \* what that function returned

vars == <<connectionStatus, reconnectAttempts, sockets, timers, mounted, drops,
          predictions, transactions, stats, call, ret>>

connVars == <<connectionStatus, reconnectAttempts, sockets, timers, mounted,
              drops>>
dataVars == <<predictions, transactions, stats>>
callVars == <<call, ret>>

\* ------------------------------------------------------------ message data
Has(x, f) == f \in DOMAIN x

\* The empty object {}.
EmptyObj == [f \in {} |-> 0]

\* Prediction objects the server sends in the model's runs.
PredFlagged == [logistic |-> 0, random_forest |-> 0, xgboost |-> 1]
PredClean   == [logistic |-> 0, random_forest |-> 0, xgboost |-> 0]
MsgPredictions == {PredFlagged, PredClean}

\* Transaction objects the server sends in the model's runs.
MsgTransactions == {EmptyObj, [Amount |-> 50], [Amount |-> 200]}

\* A decoded message: each top-level field is absent ({}) or has one value.
MkData(m, ps, p, t) ==
    LET opt == [f \in {"message", "predictions", "prediction", "transaction"} |->
                  CASE f = "message"     -> m
                    [] f = "predictions" -> ps
                    [] f = "prediction"  -> p
                    [] f = "transaction" -> t]
    IN  [f \in {g \in DOMAIN opt : opt[g] # {}} |-> CHOOSE v \in opt[f] : TRUE]

Opt(S) == {{}} \cup {{v} : v \in S}

Messages ==
    { MkData(m, ps, p, t) : m \in Opt({"", "connected"}),
                            ps \in Opt(MsgPredictions),
                            p \in Opt(MsgPredictions),
                            t \in Opt(MsgTransactions) }

\* JavaScript truthiness of a top-level field of the decoded message: an
\* absent field is undefined, the empty string is falsy, an object is truthy.
Truthy(data, f) ==
    /\ Has(data, f)
    /\ (f = "message" => data[f] # "")

\* ------------------------------------------------------ isFlaggedAsFraud
\* `NoPrediction` stands for a null / undefined Prediction: the one value
\* with the key "null", which `!prediction` tests.
NoPrediction == [null |-> TRUE]

\* The rule without the logistic vote.
isFlaggedAsFraud_noLogistic(prediction) ==
    IF Has(prediction, "null") THEN FALSE
    ELSE \/ (Has(prediction, "xgboost") /\ prediction.xgboost = 1)
         \/ (Has(prediction, "random_forest") /\ prediction.random_forest = 1)

isFlaggedAsFraud(prediction) ==
    IF Has(prediction, "null") THEN FALSE
    ELSE \/ (Has(prediction, "xgboost") /\ prediction.xgboost = 1)
         \/ (Has(prediction, "random_forest") /\ prediction.random_forest = 1)
         \/ (Has(prediction, "logistic") /\ prediction.logistic = 1)

\* ---------------------------------------------------------------- helpers
RECURSIVE Pow2(_)
Pow2(k) == IF k = 0 THEN 1 ELSE 2 * Pow2(k - 1)

\* new WebSocket(...): readyState CONNECTING, no event fired yet.
NewSocket == "connecting"

\* No render-time function has been evaluated.
NoCall == [fn |-> "none"]

RemoveAt(s, i) == [j \in 1..(Len(s) - 1) |-> IF j < i THEN s[j] ELSE s[j + 1]]

Init ==
    /\ connectionStatus = "connecting"
    /\ reconnectAttempts = 0
    /\ sockets = <<NewSocket>>
    /\ timers = <<>>
    /\ mounted = TRUE
    /\ drops = 0
    /\ predictions = <<>>
    /\ transactions = <<>>
    /\ stats = [total |-> 0, flagged |-> 0, recentVolume |-> 0]
    /\ call = NoCall
    /\ ret = FALSE

\* ------------------------------------------------------------ socket.onopen
\* onopen that forgets to reset the retry counter.
onopen_noReset ==
    /\ connectionStatus' = "connected"
    /\ UNCHANGED <<reconnectAttempts, timers>>

onopen ==
    /\ connectionStatus' = "connected"
    /\ reconnectAttempts' = 0
    /\ UNCHANGED timers

SocketOpen(i) ==
    /\ sockets[i] = "connecting"
    /\ sockets' = [sockets EXCEPT ![i] = "open"]
    /\ onopen
    /\ drops' = 0
    /\ UNCHANGED <<mounted, dataVars>>
    /\ UNCHANGED callVars

\* --------------------------------------------------------- socket.onmessage
\* The three state updates of one handler run are batched by React 18
\* (createRoot), so they are one step.
Shape1Volume(transaction) ==
    IF Has(transaction, "Amount") THEN transaction.Amount * 10 ELSE 0

\* The shape-2 volume scaled by 10 like the shape-1 one.
Shape2Volume_times10(transaction) ==
    IF Has(transaction, "Amount") THEN transaction.Amount * 10 ELSE 0

Shape2Volume(transaction) ==
    IF Has(transaction, "Amount") THEN transaction.Amount ELSE 0

\* setStats that counts every record as flagged.
setStats_alwaysFlag(prevStats, prediction, volume) ==
    [total        |-> prevStats.total + 1,
     flagged      |-> prevStats.flagged + 1,
     recentVolume |-> prevStats.recentVolume + volume]

setStats(prevStats, prediction, volume) ==
    [total        |-> prevStats.total + 1,
     flagged      |-> IF isFlaggedAsFraud(prediction)
                      THEN prevStats.flagged + 1 ELSE prevStats.flagged,
     recentVolume |-> prevStats.recentVolume + volume]

\* onmessage whose shape-1 branch forgets the transaction append.
onmessage_noTxAppend(data) ==
    IF Truthy(data, "message")
    THEN UNCHANGED dataVars
    ELSE IF Truthy(data, "predictions") /\ Truthy(data, "transaction")
    THEN /\ predictions' = Append(predictions, data.predictions)
         /\ UNCHANGED transactions
         /\ stats' = setStats(stats, data.predictions,
                              Shape1Volume(data.transaction))
    ELSE IF Truthy(data, "prediction")
    THEN /\ predictions' = Append(predictions, data.prediction)
         /\ IF Truthy(data, "transaction")
            THEN /\ transactions' = Append(transactions, data.transaction)
                 /\ stats' = setStats(stats, data.prediction,
                                      Shape2Volume(data.transaction))
            ELSE UNCHANGED <<transactions, stats>>
    ELSE UNCHANGED dataVars

\* onmessage whose shape-2 branch counts a prediction that has no transaction.
onmessage_countBare(data) ==
    IF Truthy(data, "message")
    THEN UNCHANGED dataVars
    ELSE IF Truthy(data, "predictions") /\ Truthy(data, "transaction")
    THEN /\ predictions' = Append(predictions, data.predictions)
         /\ transactions' = Append(transactions, data.transaction)
         /\ stats' = setStats(stats, data.predictions,
                              Shape1Volume(data.transaction))
    ELSE IF Truthy(data, "prediction")
    THEN /\ predictions' = Append(predictions, data.prediction)
         /\ IF Truthy(data, "transaction")
            THEN /\ transactions' = Append(transactions, data.transaction)
                 /\ stats' = setStats(stats, data.prediction,
                                      Shape2Volume(data.transaction))
            ELSE /\ UNCHANGED transactions
                 /\ stats' = setStats(stats, data.prediction, 0)
    ELSE UNCHANGED dataVars

\* onmessage that takes `predictions` without a transaction as a shape-2
\* prediction.
onmessage_predictionsAlone(data) ==
    IF Truthy(data, "message")
    THEN UNCHANGED dataVars
    ELSE IF Truthy(data, "predictions") /\ Truthy(data, "transaction")
    THEN /\ predictions' = Append(predictions, data.predictions)
         /\ transactions' = Append(transactions, data.transaction)
         /\ stats' = setStats(stats, data.predictions,
                              Shape1Volume(data.transaction))
    ELSE IF Truthy(data, "prediction")
    THEN /\ predictions' = Append(predictions, data.prediction)
         /\ IF Truthy(data, "transaction")
            THEN /\ transactions' = Append(transactions, data.transaction)
                 /\ stats' = setStats(stats, data.prediction,
                                      Shape2Volume(data.transaction))
            ELSE UNCHANGED <<transactions, stats>>
    ELSE IF Truthy(data, "predictions")
    THEN /\ predictions' = Append(predictions, data.predictions)
         /\ UNCHANGED <<transactions, stats>>
    ELSE UNCHANGED dataVars

\* onmessage whose shape-1 branch forgets the prediction append.
onmessage_noPredAppend(data) ==
    IF Truthy(data, "message")
    THEN UNCHANGED dataVars
    ELSE IF Truthy(data, "predictions") /\ Truthy(data, "transaction")
    THEN /\ UNCHANGED predictions
         /\ transactions' = Append(transactions, data.transaction)
         /\ stats' = setStats(stats, data.predictions,
                              Shape1Volume(data.transaction))
    ELSE IF Truthy(data, "prediction")
    THEN /\ predictions' = Append(predictions, data.prediction)
         /\ IF Truthy(data, "transaction")
            THEN /\ transactions' = Append(transactions, data.transaction)
                 /\ stats' = setStats(stats, data.prediction,
                                      Shape2Volume(data.transaction))
            ELSE UNCHANGED <<transactions, stats>>
    ELSE UNCHANGED dataVars

\* onmessage that tests the payload shapes before the status field.
onmessage_statusLast(data) ==
    IF Truthy(data, "predictions") /\ Truthy(data, "transaction")
    THEN /\ predictions' = Append(predictions, data.predictions)
         /\ transactions' = Append(transactions, data.transaction)
         /\ stats' = setStats(stats, data.predictions,
                              Shape1Volume(data.transaction))
    ELSE IF Truthy(data, "prediction")
    THEN /\ predictions' = Append(predictions, data.prediction)
         /\ IF Truthy(data, "transaction")
            THEN /\ transactions' = Append(transactions, data.transaction)
                 /\ stats' = setStats(stats, data.prediction,
                                      Shape2Volume(data.transaction))
            ELSE UNCHANGED <<transactions, stats>>
    ELSE UNCHANGED dataVars

\* onmessage that puts new entries at the front of the logs.
onmessage_prepend(data) ==
    IF Truthy(data, "message")
    THEN UNCHANGED dataVars
    ELSE IF Truthy(data, "predictions") /\ Truthy(data, "transaction")
    THEN /\ predictions' = <<data.predictions>> \o predictions
         /\ transactions' = <<data.transaction>> \o transactions
         /\ stats' = setStats(stats, data.predictions,
                              Shape1Volume(data.transaction))
    ELSE IF Truthy(data, "prediction")
    THEN /\ predictions' = <<data.prediction>> \o predictions
         /\ IF Truthy(data, "transaction")
            THEN /\ transactions' = <<data.transaction>> \o transactions
                 /\ stats' = setStats(stats, data.prediction,
                                      Shape2Volume(data.transaction))
            ELSE UNCHANGED <<transactions, stats>>
    ELSE UNCHANGED dataVars

onmessage(data) ==
    IF Truthy(data, "message")
    THEN UNCHANGED dataVars
    ELSE IF Truthy(data, "predictions") /\ Truthy(data, "transaction")
    THEN /\ predictions' = Append(predictions, data.predictions)
         /\ transactions' = Append(transactions, data.transaction)
         /\ stats' = setStats(stats, data.predictions,
                              Shape1Volume(data.transaction))
    ELSE IF Truthy(data, "prediction")
    THEN /\ predictions' = Append(predictions, data.prediction)
         /\ IF Truthy(data, "transaction")
            THEN /\ transactions' = Append(transactions, data.transaction)
                 /\ stats' = setStats(stats, data.prediction,
                                      Shape2Volume(data.transaction))
            ELSE UNCHANGED <<transactions, stats>>
    ELSE UNCHANGED dataVars

SocketMessage(i, data) ==
    /\ sockets[i] = "open"
    /\ Len(predictions) < MaxLog
    /\ onmessage(data)
    /\ UNCHANGED connVars
    /\ UNCHANGED callVars

\* ---------------------------------------------------------- socket.onerror
\* onerror that also schedules a reconnect, as onclose does.
onerror_retry ==
    /\ connectionStatus' = "disconnected"
    /\ IF reconnectAttempts < maxReconnectAttempts
       THEN timers' = Append(timers, Pow2(reconnectAttempts) * 1000)
       ELSE UNCHANGED timers
    /\ UNCHANGED reconnectAttempts

onerror ==
    /\ connectionStatus' = "disconnected"
    /\ UNCHANGED <<reconnectAttempts, timers>>

\* The browser fires error on a socket whose connection has failed and then
\* closes it: the socket is "closing" until its close event.
SocketError(i) ==
    /\ sockets[i] \in {"connecting", "open"}
    /\ sockets' = [sockets EXCEPT ![i] = "closing"]
    /\ onerror
    /\ UNCHANGED <<mounted, drops, dataVars>>
    /\ UNCHANGED callVars

\* ---------------------------------------------------------- socket.onclose
\* onclose with a linear instead of an exponential delay.
onclose_linear ==
    /\ connectionStatus' = "disconnected"
    /\ IF reconnectAttempts < maxReconnectAttempts
       THEN timers' = Append(timers, (reconnectAttempts + 1) * 1000)
       ELSE UNCHANGED timers
    /\ UNCHANGED reconnectAttempts

\* onclose with an off-by-one ceiling test (<= instead of <).
onclose_offByOne ==
    /\ connectionStatus' = "disconnected"
    /\ IF reconnectAttempts <= maxReconnectAttempts
       THEN timers' = Append(timers, Pow2(reconnectAttempts) * 1000)
       ELSE UNCHANGED timers
    /\ UNCHANGED reconnectAttempts

\* onclose without the retry.
onclose_noRetry ==
    /\ connectionStatus' = "disconnected"
    /\ UNCHANGED <<timers, reconnectAttempts>>

onclose ==
    /\ connectionStatus' = "disconnected"
    /\ IF reconnectAttempts < maxReconnectAttempts
       THEN timers' = Append(timers, Pow2(reconnectAttempts) * 1000)
       ELSE UNCHANGED timers
    /\ UNCHANGED reconnectAttempts

SocketClose(i) ==
    /\ sockets[i] \in {"connecting", "open", "closing"}
    /\ sockets' = [sockets EXCEPT ![i] = "closed"]
    /\ onclose
    /\ drops' = drops + 1
    /\ UNCHANGED <<mounted, dataVars>>
    /\ UNCHANGED callVars

\* ------------------------------------- the setTimeout callback of onclose
\* connectToServer without setConnectionStatus('connecting').
connectToServer_noStatus ==
    /\ UNCHANGED connectionStatus
    /\ sockets' = Append(sockets, NewSocket)

connectToServer ==
    /\ connectionStatus' = "connecting"
    /\ sockets' = Append(sockets, NewSocket)

\* A reconnect that starts over with empty logs and zeroed statistics.
TimerFire_resetData(t) ==
    /\ Len(sockets) < MaxSockets
    /\ timers' = RemoveAt(timers, t)
    /\ reconnectAttempts' = reconnectAttempts + 1
    /\ connectToServer
    /\ predictions' = <<>>
    /\ transactions' = <<>>
    /\ stats' = [total |-> 0, flagged |-> 0, recentVolume |-> 0]
    /\ UNCHANGED <<mounted, drops>>
    /\ UNCHANGED callVars

TimerFire(t) ==
    /\ Len(sockets) < MaxSockets
    /\ timers' = RemoveAt(timers, t)
    /\ reconnectAttempts' = reconnectAttempts + 1
    /\ connectToServer
    /\ UNCHANGED <<mounted, drops, dataVars>>
    /\ UNCHANGED callVars

\* ------------------------------------------------------ the effect cleanup
\* `socket` is the effect's constant: the socket of the first connectToServer
\* call.  close() on a CONNECTING or OPEN socket starts closing it; on a
\* CLOSING or CLOSED socket it does nothing.  The handlers stay attached, so
\* the close event that follows still runs onclose.
Cleanup ==
    /\ mounted
    /\ mounted' = FALSE
    /\ sockets' = IF sockets[1] \in {"connecting", "open"}
                  THEN [sockets EXCEPT ![1] = "closing"]
                  ELSE sockets
    /\ UNCHANGED <<connectionStatus, reconnectAttempts, timers, drops, dataVars>>
    /\ UNCHANGED callVars

Next ==
    \/ \E i \in DOMAIN sockets : SocketOpen(i)
    \/ \E i \in DOMAIN sockets : \E data \in Messages : SocketMessage(i, data)
    \/ \E i \in DOMAIN sockets : SocketError(i)
    \/ \E i \in DOMAIN sockets : SocketClose(i)
    \/ \E t \in DOMAIN timers : TimerFire(t)
    \/ Cleanup

Spec == Init /\ [][Next]_vars

\* A callback handed to setTimeout runs once its delay has passed.
FairSpec == Spec /\ WF_vars(\E t \in DOMAIN timers : TimerFire(t))

\* =================================================== render-time functions
\* The functions the components evaluate while rendering.  A run of SpecPure
\* evaluates one of them once, on arguments drawn from bounded sets.

\* Every Prediction with each model flag 0, 1 or absent, and the null one.
MkPrediction(l, r, x) ==
    LET opt == [f \in {"logistic", "random_forest", "xgboost"} |->
                  CASE f = "logistic"      -> l
                    [] f = "random_forest" -> r
                    [] f = "xgboost"       -> x]
    IN  [f \in {g \in DOMAIN opt : opt[g] # {}} |-> CHOOSE v \in opt[f] : TRUE]

AllPredictions ==
    { MkPrediction(l, r, x) : l \in Opt({0, 1}), r \in Opt({0, 1}),
                              x \in Opt({0, 1}) } \cup {NoPrediction}

CallIsFlaggedAsFraud(prediction) ==
    /\ call' = [fn |-> "isFlaggedAsFraud", prediction |-> prediction]
    /\ ret' = isFlaggedAsFraud(prediction)
    /\ UNCHANGED <<connVars, dataVars>>

\* ----------------------------------- table and alert-panel fraud predicates
\* prediction.logistic === 1 || prediction.random_forest === 1 ||
\* prediction.xgboost === 1, as both components spell it out.
AnyModelVote(prediction) ==
    \/ (Has(prediction, "logistic") /\ prediction.logistic = 1)
    \/ (Has(prediction, "random_forest") /\ prediction.random_forest = 1)
    \/ (Has(prediction, "xgboost") /\ prediction.xgboost = 1)

hasNegativeV1(transaction) ==
    Has(transaction, "V1") /\ transaction.V1 < -3

hasLargeAmount(transaction) ==
    Has(transaction, "Amount") /\ transaction.Amount > 1000

\* The table's predicate.  `index` is the 0-based array index.
isFraudulent(transaction, index, preds) ==
    IF Has(transaction, "Class") /\ transaction.Class = 1
    THEN TRUE
    ELSE IF index < Len(preds)
    THEN AnyModelVote(preds[index + 1])
    ELSE hasNegativeV1(transaction) \/ hasLargeAmount(transaction)

\* The alert panel's filter callback.
fraudulentTransactions(transaction, index, preds) ==
    IF Has(transaction, "Class") /\ transaction.Class = 1
    THEN TRUE
    ELSE IF index < Len(preds) /\ AnyModelVote(preds[index + 1])
    THEN TRUE
    ELSE hasNegativeV1(transaction) \/ hasLargeAmount(transaction)

MkTransaction(c, v, a) ==
    LET opt == [f \in {"Class", "V1", "Amount"} |->
                  CASE f = "Class"  -> c
                    [] f = "V1"     -> v
                    [] f = "Amount" -> a]
    IN  [f \in {g \in DOMAIN opt : opt[g] # {}} |-> CHOOSE x \in opt[f] : TRUE]

DisplayTransactions ==
    { MkTransaction(c, v, a) : c \in Opt({0, 1}), v \in Opt({-4, 0}),
                               a \in Opt({50, 2000}) }

DisplayPredictions ==
    UNION { [1..n -> MsgPredictions] : n \in 0..MaxDisplayLog }

CallIsFraudulent(transaction, index, preds) ==
    /\ call' = [fn |-> "isFraudulent", transaction |-> transaction,
                index |-> index, predictions |-> preds]
    /\ ret' = isFraudulent(transaction, index, preds)
    /\ UNCHANGED <<connVars, dataVars>>

CallFraudulentTransactions(transaction, index, preds) ==
    /\ call' = [fn |-> "fraudulentTransactions", transaction |-> transaction,
                index |-> index, predictions |-> preds]
    /\ ret' = fraudulentTransactions(transaction, index, preds)
    /\ UNCHANGED <<connVars, dataVars>>

\* ------------------------------------------- dashboard metrics, detail view
\* metrics.fraudulentTransactions: the entries of the predictions log with a
\* model vote equal to 1.
metricsFraudulentTransactions ==
    Cardinality({i \in DOMAIN predictions : AnyModelVote(predictions[i])})

\* The prediction handed to TransactionDetails for the selected transaction:
\* indexOf finds the selected object at its own log position (here 1-based).
detailPrediction(preds, position) == preds[position]

\* ------------------------------------------------------ identifyAnomalies
\* An amount is <<v>> for the number v and <<>> for NaN.
NaN == <<>>
Num(v) == <<v>>
isNaN(amount) == amount = NaN

RECURSIVE SumOf(_)
SumOf(amounts) ==
    IF amounts = <<>> THEN 0 ELSE Head(amounts)[1] + SumOf(Tail(amounts))

\* count^2 times the sum of (amount - mean)^2, with mean = sum / count.
RECURSIVE ScaledSqDev(_, _, _)
ScaledSqDev(amounts, count, sum) ==
    IF amounts = <<>> THEN 0
    ELSE (count * Head(amounts)[1] - sum) * (count * Head(amounts)[1] - sum)
         + ScaledSqDev(Tail(amounts), count, sum)

\* AboveThreshold with threshold = mean + stdDev.
AboveThreshold_oneSd(x, validAmounts) ==
    LET count == Len(validAmounts)
        sum   == SumOf(validAmounts)
        d     == count * x - sum
    IN  d > 0 /\ d * d * count > ScaledSqDev(validAmounts, count, sum)

\* x compared with threshold = mean + 2 * stdDev, where
\* stdDev = sqrt(sum of (amount - mean)^2 / count).  With d = count*x - sum
\* and q = ScaledSqDev:  x - mean = d / count  and  stdDev^2 = q / count^3, so
\* x > threshold  iff  d > 0 and d^2 * count > 4 * q, and
\* x = threshold  iff  d >= 0 and d^2 * count = 4 * q.
AboveThreshold(x, validAmounts) ==
    LET count == Len(validAmounts)
        sum   == SumOf(validAmounts)
        d     == count * x - sum
    IN  d > 0 /\ d * d * count > 4 * ScaledSqDev(validAmounts, count, sum)

AtThreshold(x, validAmounts) ==
    LET count == Len(validAmounts)
        sum   == SumOf(validAmounts)
        d     == count * x - sum
    IN  d >= 0 /\ d * d * count = 4 * ScaledSqDev(validAmounts, count, sum)

\* identifyAnomalies with >= in place of >.
identifyAnomalies_atOrAbove(amounts) ==
    IF Len(amounts) = 0 THEN <<>>
    ELSE LET validAmounts == SelectSeq(amounts, LAMBDA a : ~isNaN(a))
         IN  IF Len(validAmounts) = 0
             THEN [i \in 1..Len(amounts) |-> FALSE]
             ELSE [i \in 1..Len(amounts) |->
                     /\ ~isNaN(amounts[i])
                     /\ \/ AboveThreshold(amounts[i][1], validAmounts)
                        \/ AtThreshold(amounts[i][1], validAmounts)]

\* identifyAnomalies without the validAmounts.length === 0 return, taking an
\* amount that is not a number for an anomaly.
identifyAnomalies_nanAnomalous(amounts) ==
    IF Len(amounts) = 0 THEN <<>>
    ELSE LET validAmounts == SelectSeq(amounts, LAMBDA a : ~isNaN(a))
         IN  [i \in 1..Len(amounts) |->
                 \/ isNaN(amounts[i])
                 \/ AboveThreshold(amounts[i][1], validAmounts)]

identifyAnomalies(amounts) ==
    IF Len(amounts) = 0 THEN <<>>
    ELSE LET validAmounts == SelectSeq(amounts, LAMBDA a : ~isNaN(a))
         IN  IF Len(validAmounts) = 0
             THEN [i \in 1..Len(amounts) |-> FALSE]
             ELSE [i \in 1..Len(amounts) |->
                     /\ ~isNaN(amounts[i])
                     /\ AboveThreshold(amounts[i][1], validAmounts)]

AmountValues == {NaN, Num(0), Num(10), Num(1000)}

AmountLists == UNION { [1..n -> AmountValues] : n \in 0..MaxAmounts }

CallIdentifyAnomalies(amounts) ==
    /\ call' = [fn |-> "identifyAnomalies", amounts |-> amounts]
    /\ ret' = identifyAnomalies(amounts)
    /\ UNCHANGED <<connVars, dataVars>>

NextPure ==
    \/ /\ call = NoCall
       /\ \E prediction \in AllPredictions : CallIsFlaggedAsFraud(prediction)
    \/ /\ call = NoCall
       /\ \E transaction \in DisplayTransactions, index \in 0..MaxDisplayLog,
             preds \in DisplayPredictions :
               CallIsFraudulent(transaction, index, preds)
    \/ /\ call = NoCall
       /\ \E transaction \in DisplayTransactions, index \in 0..MaxDisplayLog,
             preds \in DisplayPredictions :
               CallFraudulentTransactions(transaction, index, preds)
    \/ /\ call = NoCall
       /\ \E amounts \in AmountLists : CallIdentifyAnomalies(amounts)

SpecPure == Init /\ [][NextPure]_vars

\* ==================================================================== claims
\* Steps recognised from the state change they make.
ClosedNow ==
    \E i \in DOMAIN sockets : sockets[i] # "closed" /\ sockets'[i] = "closed"

OpenedNow ==
    \E i \in DOMAIN sockets : sockets[i] = "connecting" /\ sockets'[i] = "open"

\* An error event: a socket starts closing and it is not the cleanup's close().
ErroredNow ==
    /\ mounted' = mounted
    /\ \E i \in DOMAIN sockets : sockets[i] # "closing" /\ sockets'[i] = "closing"

ActiveSockets == {i \in DOMAIN sockets : sockets[i] \in {"connecting", "open"}}

BackoffDelays == <<1000, 2000, 4000, 8000, 16000>>

\* C1: every socket close with the retry counter k below 5 schedules exactly
\* one reconnect, with delay 2^k seconds; the close is then the (k+1)-th drop
\* since the last successful open, so the 1st..5th consecutive drops schedule
\* 1s, 2s, 4s, 8s, 16s.
C1_Backoff ==
    [][ (ClosedNow /\ reconnectAttempts < maxReconnectAttempts) =>
            /\ timers' = Append(timers, Pow2(reconnectAttempts) * 1000)
            /\ drops' = reconnectAttempts + 1
            /\ timers'[Len(timers')] = BackoffDelays[drops'] ]_vars

\* The 5th consecutive drop has scheduled the 16s reconnect.
C1_Witness == drops = 5 /\ timers = <<16000>>

\* Retry exhaustion: the counter is at the ceiling, every socket is closed and
\* no timer is pending.
Exhausted ==
    /\ reconnectAttempts = maxReconnectAttempts
    /\ \A i \in DOMAIN sockets : sockets[i] = "closed"
    /\ timers = <<>>

\* C2: a socket close with the retry counter at the ceiling schedules no
\* timer and leaves Connection State disconnected; from then on no socket is
\* created, no timer is scheduled and Connection State stays disconnected.
C2_Terminal ==
    [][ /\ (ClosedNow /\ reconnectAttempts = maxReconnectAttempts) =>
              (timers' = timers /\ Exhausted' /\ connectionStatus' = "disconnected")
        /\ Exhausted =>
              /\ connectionStatus = "disconnected"
              /\ UNCHANGED <<connectionStatus, reconnectAttempts, sockets, timers>> ]_vars

\* The sixth socket has closed with the counter at the ceiling, below the
\* model's socket bound.
C2_Witness == Exhausted /\ Len(sockets) = 6 /\ Len(sockets) < MaxSockets

\* C3: after the effect cleanup no socket created by the connector is open or
\* connecting.
C3_NoSocketAfterTeardown ==
    ~mounted => ActiveSockets = {}

\* C4: the cleanup cancels a pending reconnect timer, and after the cleanup no
\* socket is created and Connection State is not updated.
C4_NoReconnectAfterTeardown ==
    [][ /\ (mounted /\ ~mounted') => timers' = <<>>
        /\ ~mounted => /\ Len(sockets') = Len(sockets)
                       /\ connectionStatus' = connectionStatus ]_vars

\* C5: at most one socket is connecting or open; every socket but the newest
\* is closed, so a socket is created only once its predecessor has closed and
\* a superseded socket fires no event.
C5_OneActiveSocket ==
    /\ Cardinality(ActiveSockets) <= 1
    /\ \A i \in 1..(Len(sockets) - 1) : sockets[i] = "closed"

\* A reconnected socket is open behind its closed predecessors.
C5_Witness == Len(sockets) >= 3 /\ sockets[Len(sockets)] = "open"

\* C6: the transactions log and the predictions log have equal length.
C6_Lockstep == Len(transactions) = Len(predictions)

\* C7: a successful open sets Connection State to connected and the retry
\* counter to zero; the first drop after an open schedules the 1s reconnect
\* whatever the number of retries before the open.
C7_OpenResets ==
    [][ /\ OpenedNow => (connectionStatus' = "connected" /\ reconnectAttempts' = 0)
        /\ (ClosedNow /\ drops = 0) => timers' = Append(timers, 1000) ]_vars

\* A socket reached after at least two retries opened and then dropped: the
\* 1s reconnect is pending.
C7_Witness == Len(sockets) >= 3 /\ drops = 1 /\ timers = <<1000>>

\* C8: an error event sets Connection State to disconnected and schedules
\* nothing; at most one reconnect timer is pending.
C8_ErrorNoRetry ==
    [][ /\ ErroredNow => (connectionStatus' = "disconnected" /\ timers' = timers)
        /\ Len(timers) <= 1
        /\ Len(timers') <= 1 ]_vars

\* A socket has reported an error and its close event is still to come.
C8_Witness ==
    /\ mounted
    /\ sockets[Len(sockets)] = "closing"
    /\ connectionStatus = "disconnected"
    /\ timers = <<>>

\* A message the handler accepts as shape 1 / as shape 2 without transaction.
AcceptedShape1(data) ==
    /\ ~Truthy(data, "message")
    /\ Truthy(data, "predictions")
    /\ Truthy(data, "transaction")

BarePrediction(data) ==
    /\ ~Truthy(data, "message")
    /\ Truthy(data, "prediction")
    /\ ~Truthy(data, "transaction")

Delivered(data) == \E i \in DOMAIN sockets : SocketMessage(i, data)

\* C9: an accepted shape-1 message adds exactly one entry to the transactions
\* log, one to the predictions log and 1 to total.
C9_Shape1Counts ==
    [][ \A data \in Messages : (AcceptedShape1(data) /\ Delivered(data)) =>
            /\ Len(transactions') = Len(transactions) + 1
            /\ Len(predictions') = Len(predictions) + 1
            /\ stats'.total = stats.total + 1 ]_vars

\* One shape-1 message with Amount 50 has been folded in.
C9_Witness ==
    /\ Len(transactions) = 1
    /\ Len(predictions) = 1
    /\ stats.total = 1
    /\ stats.recentVolume = 500

\* C10: a shape-2 message without a transaction appends exactly its
\* prediction and leaves the transactions log and the statistics unchanged.
C10_BarePrediction ==
    [][ \A data \in Messages : (BarePrediction(data) /\ Delivered(data)) =>
            /\ predictions' = Append(predictions, data.prediction)
            /\ transactions' = transactions
            /\ stats' = stats ]_vars

\* A prediction was appended with no transaction and no statistics update.
C10_Witness ==
    /\ Len(predictions) = 1
    /\ transactions = <<>>
    /\ stats = [total |-> 0, flagged |-> 0, recentVolume |-> 0]

\* A message the handler accepts as shape 2 with a transaction, and the
\* messages that append a record (a transaction with its prediction).
AcceptedShape2Tx(data) ==
    /\ ~Truthy(data, "message")
    /\ ~Truthy(data, "predictions")
    /\ Truthy(data, "prediction")
    /\ Truthy(data, "transaction")

AcceptedRecord(data) == AcceptedShape1(data) \/ AcceptedShape2Tx(data)

RecordPrediction(data) ==
    IF AcceptedShape1(data) THEN data.predictions ELSE data.prediction

AmountOr0(transaction) ==
    IF Has(transaction, "Amount") THEN transaction.Amount ELSE 0

\* C11: each accepted record adds 1 to flagged exactly when the
\* classification rule holds of its Prediction and leaves flagged unchanged
\* otherwise; nothing else changes flagged, and flagged never exceeds total.
C11_FlaggedCount ==
    [][ /\ \A data \in Messages : (AcceptedRecord(data) /\ Delivered(data)) =>
              stats'.flagged = stats.flagged +
                  (IF isFlaggedAsFraud(RecordPrediction(data)) THEN 1 ELSE 0)
        /\ stats'.flagged # stats.flagged =>
              \E data \in Messages : /\ AcceptedRecord(data)
                                     /\ Delivered(data)
                                     /\ isFlaggedAsFraud(RecordPrediction(data))
        /\ stats.flagged <= stats.total
        /\ stats'.flagged <= stats'.total ]_vars

\* Two records were accepted, one of them flagged.
C11_Witness == stats.total = 2 /\ stats.flagged = 1

\* C12: recentVolume grows by Amount*10 on a shape-1 record and by Amount on
\* a shape-2 record with a transaction, an absent Amount counting as 0; the
\* first shape-1 message with a flagged Prediction and Amount 50 gives
\* total=1, flagged=1, recentVolume=500.
C12_Volume ==
    [][ \A data \in Messages : Delivered(data) =>
          /\ AcceptedShape1(data) =>
                stats'.recentVolume =
                    stats.recentVolume + AmountOr0(data.transaction) * 10
          /\ AcceptedShape2Tx(data) =>
                stats'.recentVolume =
                    stats.recentVolume + AmountOr0(data.transaction)
          /\ ( /\ AcceptedShape1(data)
               /\ stats.total = 0
               /\ data.predictions = PredFlagged
               /\ data.transaction = [Amount |-> 50] ) =>
                stats' = [total |-> 1, flagged |-> 1, recentVolume |-> 500] ]_vars

\* Two shape-2 messages with an unflagged Prediction and Amount 200.
C12_Witness ==
    /\ predictions = <<PredClean, PredClean>>
    /\ transactions = <<[Amount |-> 200], [Amount |-> 200]>>
    /\ stats = [total |-> 2, flagged |-> 0, recentVolume |-> 400]

\* A message with nothing but a status field, and a message of neither shape.
StatusOnly(data) == DOMAIN data = {"message"}

NeitherShape(data) ==
    /\ ~(Has(data, "predictions") /\ Has(data, "transaction"))
    /\ ~Has(data, "prediction")

\* C13: a status-only message and a message of neither shape change nothing:
\* both logs, the statistics and Connection State stay as they are.
C13_IgnoredMessage ==
    [][ \A data \in Messages :
          ((StatusOnly(data) \/ NeitherShape(data)) /\ Delivered(data)) =>
              UNCHANGED <<predictions, transactions, stats, connectionStatus>> ]_vars

\* An open socket with one entry logged and room for more: every message of
\* the model can be delivered here.
C13_Witness ==
    /\ sockets[Len(sockets)] = "open"
    /\ Len(predictions) = 1
    /\ Len(predictions) < MaxLog

\* C14: the classification rule is true exactly when at least one of the
\* three model flags is present and equal to 1, and false for a null
\* Prediction.
C14_ClassificationRule ==
    call.fn = "isFlaggedAsFraud" =>
        ret = IF call.prediction = NoPrediction THEN FALSE
              ELSE \E f \in DOMAIN call.prediction : call.prediction[f] = 1

\* The rule was applied to a Prediction whose only flag is logistic = 1.
C14_Witness ==
    /\ call.fn = "isFlaggedAsFraud"
    /\ call.prediction = [logistic |-> 1]
    /\ ret = TRUE

\* C15: at a log position that has a Prediction, the table predicate and the
\* alert-panel predicate return the classification rule's result for that
\* Prediction (Class, V1 and Amount are not consulted).
C15_PredictionDecides ==
    (/\ call.fn \in {"isFraudulent", "fraudulentTransactions"}
     /\ call.index < Len(call.predictions)) =>
        ret = isFlaggedAsFraud(call.predictions[call.index + 1])


\* C16: one accepted record is applied as a whole and one message at a time:
\* a record message changes the predictions log, the transactions log and
\* total together, no step moves the transactions log without total or
\* without the predictions log, and total equals the transactions log length
\* in every state.
C16_WholeMessage ==
    [][ /\ \A data \in Messages : (AcceptedRecord(data) /\ Delivered(data)) =>
              /\ Len(predictions') = Len(predictions) + 1
              /\ Len(transactions') = Len(transactions) + 1
              /\ stats' # stats
        /\ Len(transactions') - Len(transactions) = stats'.total - stats.total
        /\ Len(transactions') - Len(transactions) \in {0, 1}
        /\ Len(transactions') - Len(transactions)
              <= Len(predictions') - Len(predictions)
        /\ Len(predictions') - Len(predictions) \in {0, 1}
        /\ stats.total = Len(transactions)
        /\ stats'.total = Len(transactions') ]_vars

\* One shape-2 message with a transaction of Amount 200 has been applied.
C16_Witness ==
    /\ Len(predictions) = 1
    /\ transactions = <<[Amount |-> 200]>>
    /\ stats.total = 1
    /\ stats.recentVolume = 200

StatusMoves ==
    { <<"connecting", "connected">>, <<"connecting", "disconnected">>,
      <<"connected", "disconnected">>, <<"disconnected", "connecting">> }

\* C17: Connection State changes only along connecting->connected,
\* connecting->disconnected, connected->disconnected and
\* disconnected->connecting, and the last one only when a reconnect timer
\* fires, which was scheduled with the retry counter below 5.
C17_StatusMoves ==
    [][ /\ connectionStatus' # connectionStatus =>
              <<connectionStatus, connectionStatus'>> \in StatusMoves
        /\ (connectionStatus = "disconnected" /\ connectionStatus' = "connecting") =>
              /\ timers # <<>>
              /\ Len(timers') = Len(timers) - 1
              /\ reconnectAttempts < maxReconnectAttempts
              /\ timers[1] = Pow2(reconnectAttempts) * 1000
              /\ Len(sockets') = Len(sockets) + 1 ]_vars

\* The first reconnect succeeded: connecting, disconnected, connecting,
\* connected.
C17_Witness ==
    /\ Len(sockets) = 2
    /\ connectionStatus = "connected"
    /\ reconnectAttempts = 0

\* A socket has closed with retries remaining, the session is not torn down
\* and the model may still create a socket.
DroppedWithRetries ==
    /\ mounted
    /\ sockets[Len(sockets)] = "closed"
    /\ reconnectAttempts < maxReconnectAttempts
    /\ Len(sockets) < MaxSockets

\* C18: a socket close with retries remaining, in a session that is not torn
\* down, is eventually followed by a new connection attempt.
C18_Reconnects == DroppedWithRetries ~> connectionStatus = "connecting"

\* The fourth socket has dropped with the session alive and retries left.
C18_Witness ==
    /\ DroppedWithRetries
    /\ Len(sockets) = 4
    /\ connectionStatus = "disconnected"

IsPrefix(s, t) ==
    /\ Len(s) <= Len(t)
    /\ \A i \in DOMAIN s : s[i] = t[i]

\* C19: both logs are append-only in arrival order: each step leaves the old
\* log as a prefix of the new one, and a message that is accepted puts its
\* own prediction (and transaction) at the end.
C19_AppendOnly ==
    [][ /\ IsPrefix(predictions, predictions')
        /\ IsPrefix(transactions, transactions')
        /\ \A data \in Messages : Delivered(data) =>
              /\ AcceptedRecord(data) =>
                    /\ predictions' = Append(predictions, RecordPrediction(data))
                    /\ transactions' = Append(transactions, data.transaction)
              /\ BarePrediction(data) =>
                    predictions' = Append(predictions, data.prediction) ]_vars

\* Two different records were logged one after the other.
C19_Witness ==
    /\ predictions = <<PredFlagged, PredClean>>
    /\ transactions = <<[Amount |-> 50], [Amount |-> 200]>>

\* mean + 2 * stddev by the moments of the numeric amounts: with n numbers of
\* sum s and sum of squares q, mean = s / n and stddev^2 = (n*q - s^2) / n^2,
\* so x > mean + 2 * stddev  iff  n*x - s > 0 and (n*x - s)^2 > 4 * (n*q - s^2).
Numeric(amounts) == {i \in DOMAIN amounts : amounts[i] # NaN}

RECURSIVE SumOver(_, _, _)
SumOver(amounts, I, square) ==
    IF I = {} THEN 0
    ELSE LET i == CHOOSE j \in I : TRUE
             v == amounts[i][1]
         IN  (IF square THEN v * v ELSE v) + SumOver(amounts, I \ {i}, square)

ExceedsMeanPlus2Sd(x, amounts) ==
    LET n == Cardinality(Numeric(amounts))
        s == SumOver(amounts, Numeric(amounts), FALSE)
        q == SumOver(amounts, Numeric(amounts), TRUE)
    IN  n * x - s > 0 /\ (n * x - s) * (n * x - s) > 4 * (n * q - s * s)

ScenarioAmounts == <<Num(10), Num(10), Num(10), Num(10), Num(1000)>>

\* C20: identifyAnomalies returns one flag per amount, true exactly for the
\* numeric amounts strictly above mean + 2 * stddev (population, over the
\* numeric amounts of the list); for [10,10,10,10,1000] the threshold is
\* exactly 1000 and nothing is flagged.
C20_Anomalies ==
    call.fn = "identifyAnomalies" =>
        /\ Len(ret) = Len(call.amounts)
        /\ \A i \in DOMAIN call.amounts :
              ret[i] <=> /\ call.amounts[i] # NaN
                         /\ ExceedsMeanPlus2Sd(call.amounts[i][1], call.amounts)
        /\ call.amounts = ScenarioAmounts =>
              /\ AtThreshold(1000, ScenarioAmounts)
              /\ ret = <<FALSE, FALSE, FALSE, FALSE, FALSE>>

\* A list with a NaN entry in which one amount is flagged.
C20_Witness ==
    /\ call.fn = "identifyAnomalies"
    /\ \E i \in DOMAIN call.amounts : call.amounts[i] = NaN
    /\ \E i \in DOMAIN ret : ret[i]

\* C21: for an empty list and for a list with no numeric amount
\* identifyAnomalies returns one flag per amount, all of them false.
C21_NothingNumeric ==
    (call.fn = "identifyAnomalies" /\ Numeric(call.amounts) = {}) =>
        /\ Len(ret) = Len(call.amounts)
        /\ \A i \in DOMAIN ret : ret[i] = FALSE

\* identifyAnomalies was applied to a list of two amounts, neither a number.
C21_Witness ==
    /\ call = [fn |-> "identifyAnomalies", amounts |-> <<NaN, NaN>>]
    /\ ret = <<FALSE, FALSE>>

C22_OwnPrediction ==
    [][ \A data \in Messages : (AcceptedRecord(data) /\ Delivered(data)) =>
            /\ Len(transactions') = Len(predictions')
            /\ transactions'[Len(transactions')] = data.transaction
            /\ detailPrediction(predictions', Len(transactions')) = RecordPrediction(data) ]_vars

\* C23: the aggregate flagged equals the number of entries of the predictions
\* log for which a model votes 1, as the dashboard metrics count them.
C23_FlaggedIsDerived == stats.flagged = metricsFraudulentTransactions

\* Every attempt fails: no socket is ever open, and the newest socket is closed
\* again and again (none stays connecting or closing for ever).
NoSocketOpen == \A i \in DOMAIN sockets : sockets[i] # "open"

NewestSocketClosed == sockets[Len(sockets)] = "closed"

\* C24: in a session that is never torn down and in which every connection
\* attempt fails, the connector ends, for good, with exactly 6 sockets
\* created, all closed, the counter at the ceiling, no timer pending and
\* Connection State disconnected.
C24_SixAttempts ==
    ([]NoSocketOpen /\ []mounted /\ []<>NewestSocketClosed) =>
        <>[](Exhausted /\ Len(sockets) = 6 /\ connectionStatus = "disconnected")

\* Six sockets have closed one after the other, none of them opened, and the
\* session is alive.
C24_Witness ==
    /\ mounted
    /\ drops = 6
    /\ Exhausted
    /\ Len(sockets) = 6

\* C25: the predictions log is at least as long as the transactions log and
\* total equals the transactions log length; so at every transaction
\* position the test `index < predictions.length` of the display predicates
\* succeeds and their no-prediction branch is not taken.
C25_PredictionAtEveryPosition ==
    /\ Len(predictions) >= Len(transactions)
    /\ stats.total = Len(transactions)
    /\ \A index \in 0..(Len(transactions) - 1) : index < Len(predictions)

\* A bare prediction and a record: two predictions over one transaction.
C25_Witness ==
    /\ Len(predictions) = 2
    /\ Len(transactions) = 1
    /\ stats.total = 1

\* C26: the retry counter is between 0 and 5, and it is 0 whenever
\* Connection State is connected.
C26_CounterRange ==
    /\ reconnectAttempts \in 0..maxReconnectAttempts
    /\ connectionStatus = "connected" => reconnectAttempts = 0

\* The fifth retry succeeded: the sixth socket is open and the counter is
\* back at 0.
C26_Witness ==
    /\ Len(sockets) = 6
    /\ sockets[6] = "open"
    /\ connectionStatus = "connected"
    /\ reconnectAttempts = 0

\* A step that delivers a message to the handler.
Delivery == \E data \in Messages : Delivered(data)

\* C27: a step that is not a message delivery (open, error, close, timer
\* firing, retry exhaustion, teardown) leaves both logs and the three
\* aggregates unchanged, and a message delivery leaves Connection State and
\* the retry counter unchanged.
C27_Separation ==
    [][ /\ (OpenedNow \/ ErroredNow \/ ClosedNow \/ Len(sockets') > Len(sockets)
             \/ timers' # timers \/ Exhausted') =>
              UNCHANGED <<predictions, transactions, stats>>
        /\ ~Delivery => UNCHANGED <<predictions, transactions, stats>>
        /\ Delivery => UNCHANGED <<connectionStatus, reconnectAttempts>> ]_vars

\* A record logged on the first socket is still there, with its statistics,
\* on the third socket after two drops.
C27_Witness ==
    /\ Len(sockets) = 3
    /\ sockets[3] = "open"
    /\ predictions = <<PredFlagged>>
    /\ transactions = <<[Amount |-> 50]>>
    /\ stats = [total |-> 1, flagged |-> 1, recentVolume |-> 500]

\* C28: a message with a non-empty message field changes nothing, also when
\* it carries predictions or prediction and a transaction.
C28_StatusPrecedence ==
    [][ \A data \in Messages : (Truthy(data, "message") /\ Delivered(data)) =>
            UNCHANGED <<predictions, transactions, stats, connectionStatus,
                        reconnectAttempts>> ]_vars

\* An open socket with empty logs and statistics at zero: a status message
\* that carries a payload can arrive and would be the first record.
C28_Witness ==
    /\ sockets[Len(sockets)] = "open"
    /\ predictions = <<>>
    /\ transactions = <<>>
    /\ stats.total = 0
====
